---- MODULE Spec2Model ----
(***************************************************************************)
(* A model of scripts/analyze-engagement.py: the platform classifier       *)
(* (is_twitter_post), the distribution analyzer (analyze_distribution),    *)
(* the per-source analysis with its heuristic/API comparison               *)
(* (analyze_by_source) and the report driver (main).                       *)
(*                                                                         *)
(* JSON values are tagged records: Null, Num(n), Str(s).  A string is a    *)
(* sequence of one-character strings.  A JSON object is a function whose   *)
(* DOMAIN is the set of keys that are present, so "key absent" and "key    *)
(* present with value null" are different things, as they are in Python.   *)
(***************************************************************************)
EXTENDS Integers, Sequences, FiniteSets

VARIABLES
    pc,                \* the statement the run is at
    post,              \* is_twitter_post: its argument
    scores,            \* analyze_distribution: its argument
    calibration,       \* analyze_by_source: its argument
    heuristic_scores,  \* analyze_by_source: local
    api_scores,        \* analyze_by_source: local
    paired,            \* analyze_by_source: local
    h_stats,           \* analyze_by_source: local
    a_stats,           \* analyze_by_source: local
    data,              \* main: the loaded export document
    twitter_cal,       \* main: local
    reddit_cal,        \* main: local
    all_posts,         \* main: local
    stdout,            \* what has been printed, one entry per report block
    ret                \* the value returned, the exception raised, or the exit status

vars == <<pc, post, scores, calibration, heuristic_scores, api_scores, paired,
          h_stats, a_stats, data, twitter_cal, reddit_cal, all_posts, stdout, ret>>

sourceVars == <<calibration, heuristic_scores, api_scores, paired, h_stats, a_stats>>

mainVars == <<data, twitter_cal, reddit_cal, all_posts>>

(***************************************************************************)
(* JSON values and Python call results                                     *)
(***************************************************************************)
Null == [t |-> "null"]

Num(n) == [t |-> "num", n |-> n]

Str(s) == [t |-> "str", s |-> s]

\* A call either returns a value or raises an exception.
Return(v) == [exc |-> "", val |-> v]

Raise(e) == [exc |-> e, val |-> FALSE]

\* dict.get(k, default) with the default dropped: an absent key gives None.
GetNoDefault(d, k, default) == IF k \in DOMAIN d THEN d[k] ELSE Null

\* dict.get(k, default)
Get(d, k, default) == IF k \in DOMAIN d THEN d[k] ELSE default

(***************************************************************************)
(* Strings                                                                 *)
(***************************************************************************)
Digit == {"0", "1", "2", "3", "4", "5", "6", "7", "8", "9"}

\* str.startswith(prefix)
startswith(s, prefix) ==
    /\ Len(s) >= Len(prefix)
    /\ SubSeq(s, 1, Len(prefix)) = prefix

\* str.isdigit(): every character is a digit and there is at least one.
isdigit(s) == Len(s) > 0 /\ \A i \in 1..Len(s) : s[i] \in Digit

(***************************************************************************)
(* is_twitter_post                                                         *)
(***************************************************************************)
\* Twitter post IDs are longer than this many characters.
TwitterIdLen == 15

\* Off by one: a 15-digit id is taken for a Twitter id.
is_twitter_post_ge(p) ==
    LET subreddit == Get(p, "subreddit", Str(<<>>))
        post_id   == Get(p, "postId", Str(<<>>))
    IN  IF subreddit.t # "str" THEN Raise("AttributeError")
        ELSE IF startswith(subreddit.s, <<"@">>) THEN Return(TRUE)
        ELSE IF post_id.t # "str" THEN Raise("AttributeError")
        ELSE IF isdigit(post_id.s) /\ Len(post_id.s) >= TwitterIdLen THEN Return(TRUE)
        ELSE Return(FALSE)

is_twitter_post(p) ==
    LET subreddit == Get(p, "subreddit", Str(<<>>))
        post_id   == Get(p, "postId", Str(<<>>))
    IN  IF subreddit.t # "str" THEN Raise("AttributeError")
        ELSE IF startswith(subreddit.s, <<"@">>) THEN Return(TRUE)
        ELSE IF post_id.t # "str" THEN Raise("AttributeError")
        ELSE IF isdigit(post_id.s) /\ Len(post_id.s) > TwitterIdLen THEN Return(TRUE)
        ELSE Return(FALSE)

(***************************************************************************)
(* Inputs of the classifier                                                *)
(***************************************************************************)
\* The longest postId drawn.
MaxIdLen == 17

\* The digit string of length n: 1234567890123...
DigitString(n) == [i \in 1..n |-> CASE i % 10 = 0 -> "0" [] i % 10 = 1 -> "1"
                                    [] i % 10 = 2 -> "2" [] i % 10 = 3 -> "3"
                                    [] i % 10 = 4 -> "4" [] i % 10 = 5 -> "5"
                                    [] i % 10 = 6 -> "6" [] i % 10 = 7 -> "7"
                                    [] i % 10 = 8 -> "8" [] OTHER -> "9"]

\* Digit strings of every length up to MaxIdLen, the same strings with one
\* character replaced by a letter, and the identifier of a forum post.
PostIdStrings ==
    {DigitString(n) : n \in 0..MaxIdLen}
    \cup UNION {{[DigitString(n) EXCEPT ![j] = "a"] : j \in 1..n} : n \in 1..MaxIdLen}
    \cup {<<"a", "b", "c", "1", "2", "3">>}

SubredditStrings ==
    {<<>>, <<"@">>, <<"@", "b", "o", "b">>, <<"f", "u", "n", "n", "y">>, <<"f", "@">>}

\* A field of a drawn record: the key absent, present with null, or present
\* with a string.
FieldChoices(strings) ==
    {[kind |-> "absent", s |-> <<>>], [kind |-> "null", s |-> <<>>]}
    \cup {[kind |-> "str", s |-> s] : s \in strings}

FieldValue(c) == IF c.kind = "null" THEN Null ELSE Str(c.s)

MkPost(sub, pid) ==
    LET keys == (IF sub.kind = "absent" THEN {} ELSE {"subreddit"})
                \cup (IF pid.kind = "absent" THEN {} ELSE {"postId"})
    IN  [k \in keys |-> IF k = "subreddit" THEN FieldValue(sub) ELSE FieldValue(pid)]

ClassifierPosts ==
    {MkPost(sub, pid) : sub \in FieldChoices(SubredditStrings),
                        pid \in FieldChoices(PostIdStrings)}

(***************************************************************************)
(* Values of the variables a specification does not use                    *)
(***************************************************************************)
NoPost == [k \in {} |-> Null]

NoData == [k \in {} |-> Null]

NotReturned == Raise("pending")

(***************************************************************************)
(* The classifier applied to one drawn record                              *)
(***************************************************************************)
InitClassify ==
    /\ pc = "is_twitter_post"
    /\ post \in ClassifierPosts
    /\ scores = <<>>
    /\ calibration = <<>>
    /\ heuristic_scores = <<>>
    /\ api_scores = <<>>
    /\ paired = <<>>
    /\ h_stats = Null
    /\ a_stats = Null
    /\ data = NoData
    /\ twitter_cal = <<>>
    /\ reddit_cal = <<>>
    /\ all_posts = <<>>
    /\ stdout = <<>>
    /\ ret = NotReturned

Classify ==
    /\ pc = "is_twitter_post"
    /\ ret' = is_twitter_post(post)
    /\ pc' = "returned"
    /\ UNCHANGED <<post, scores, sourceVars, mainVars, stdout>>

NextClassify == Classify

SpecClassify == InitClassify /\ [][NextClassify]_vars

\* The record is one of the input schema: subreddit and postId are each
\* absent or a string.
SchemaPost(p) == \A k \in DOMAIN p : p[k].t = "str"

\* The string a field holds, the empty string when it holds none.
FieldString(p, k) == IF k \in DOMAIN p /\ p[k].t = "str" THEN p[k].s ELSE <<>>

\* The record with its absent keys set to the empty string.
WithEmptyStrings(p) ==
    [k \in {"subreddit", "postId"} |-> IF k \in DOMAIN p THEN p[k] ELSE Str(<<>>)]

OnlyDigits(s) == \A i \in 1..Len(s) : s[i] \in Digit

C2_NeverErrors ==
    (pc = "returned" /\ SchemaPost(post)) =>
        /\ ret.exc = ""
        /\ ret.val \in BOOLEAN
        /\ ret = is_twitter_post(WithEmptyStrings(post))

\* A record with neither key was classified, as a forum post.
C2_Witness ==
    /\ pc = "returned"
    /\ DOMAIN post = {}
    /\ ret = Return(FALSE)

(***************************************************************************)
(* analyze_distribution                                                    *)
(***************************************************************************)
\* A call that prints: what it returned or raised, and what it printed.
ReturnOut(v, out) == [exc |-> "", val |-> v, out |-> out]

RaiseOut(e, out) == [exc |-> e, val |-> FALSE, out |-> out]

\* Scores below this are "low".
LowBelow == 40

\* Scores from this on are "high".
HighFrom == 70

\* The width of a histogram bucket.
BucketWidth == 10

\* The length of the longest histogram bar.
BarWidth == 40

Min(a, b) == IF a <= b THEN a ELSE b

RECURSIVE sum(_)
sum(s) == IF s = <<>> THEN 0 ELSE Head(s) + sum(Tail(s))

RECURSIVE Insert(_, _)
Insert(x, s) ==
    IF s = <<>> THEN <<x>>
    ELSE IF x < Head(s) THEN <<x>> \o s
    ELSE <<Head(s)>> \o Insert(x, Tail(s))

\* sorted(scores), ascending, duplicates kept.
RECURSIVE sorted(_)
sorted(s) ==
    IF s = <<>> THEN <<>>
    ELSE Insert(s[Len(s)], sorted(SubSeq(s, 1, Len(s) - 1)))

\* min(scores), max(scores)
min(s) == CHOOSE x \in {s[i] : i \in 1..Len(s)} : \A j \in 1..Len(s) : x <= s[j]

max(s) == CHOOSE x \in {s[i] : i \in 1..Len(s)} : \A j \in 1..Len(s) : x >= s[j]

\* The lower-middle element for an even length.
median_lower(s) == s[((Len(s) - 1) \div 2) + 1]

\* scores[n // 2] of the sorted scores (Python indexes from 0).
median(s) == s[(Len(s) \div 2) + 1]

\* The index rounded to the nearest rank instead of truncated.
percentile_rounded(s, p) ==
    LET n   == Len(s)
        idx == (n * p + 50) \div 100
    IN  s[Min(idx, n - 1) + 1]

\* percentile(p) over the sorted scores: the index int(n * p / 100), clamped
\* to n - 1.
percentile(s, p) ==
    LET n   == Len(s)
        idx == (n * p) \div 100
    IN  s[Min(idx, n - 1) + 1]

\* 40 itself is counted neither as low nor as medium.
bucket_counts_open(s) ==
    [low    |-> Cardinality({i \in 1..Len(s) : s[i] < LowBelow}),
     medium |-> Cardinality({i \in 1..Len(s) : LowBelow < s[i] /\ s[i] < HighFrom}),
     high   |-> Cardinality({i \in 1..Len(s) : s[i] >= HighFrom})]

\* low, medium, high
bucket_counts(s) ==
    [low    |-> Cardinality({i \in 1..Len(s) : s[i] < LowBelow}),
     medium |-> Cardinality({i \in 1..Len(s) : LowBelow <= s[i] /\ s[i] < HighFrom}),
     high   |-> Cardinality({i \in 1..Len(s) : s[i] >= HighFrom})]

\* The printed histogram: for each bucket 0, 10, ..., 100 its count and the
\* length of its bar.
histogram(s) ==
    LET buckets   == {(s[i] \div BucketWidth) * BucketWidth : i \in 1..Len(s)}
        count(b)  == Cardinality({i \in 1..Len(s) : (s[i] \div BucketWidth) * BucketWidth = b})
        max_count == CHOOSE c \in {count(b) : b \in buckets} :
                        \A b \in buckets : c >= count(b)
    IN  [b \in {BucketWidth * k : k \in 0..10} |->
            [count   |-> count(b),
             bar_len |-> IF max_count > 0 THEN (BarWidth * count(b)) \div max_count ELSE 0]]

\* analyze_distribution(scores, label).  scores is a list of JSON values; a
\* None among them makes sorted() or sum() raise TypeError before anything is
\* printed.  The mean is kept as the fraction sum / n.
analyze_distribution(scores_, label) ==
    IF scores_ = <<>>
    THEN ReturnOut(Null, <<[kind |-> "nodata", label |-> label]>>)
    ELSE IF \E i \in 1..Len(scores_) : scores_[i].t # "num"
    THEN RaiseOut("TypeError", <<>>)
    ELSE
        LET s    == sorted([i \in 1..Len(scores_) |-> scores_[i].n])
            n    == Len(s)
            mean == [num |-> sum(s), den |-> n]
            b    == bucket_counts(s)
            p75  == percentile(s, 75)
            p90  == percentile(s, 90)
            p95  == percentile(s, 95)
        IN  ReturnOut(
                [n |-> n, mean |-> mean, median |-> median(s),
                 p75 |-> p75, p90 |-> p90, p95 |-> p95],
                <<[kind |-> "distribution", label |-> label, n |-> n,
                   min |-> min(s), max |-> max(s), mean |-> mean, median |-> median(s),
                   p10 |-> percentile(s, 10), p25 |-> percentile(s, 25),
                   p50 |-> percentile(s, 50), p75 |-> p75, p90 |-> p90, p95 |-> p95,
                   low |-> b.low, medium |-> b.medium, high |-> b.high,
                   histogram |-> histogram(s),
                   suggested |-> <<p75, p90, p90>>]>>)

(***************************************************************************)
(* The analyzer applied to one drawn score list                            *)
(***************************************************************************)
\* The longest score list drawn.
MaxScores == 5

ScoreValues == {10, 20, 30, 39, 40, 69, 70}

ScoreChoices == {Null} \cup {Num(v) : v \in ScoreValues}

InitDist ==
    /\ pc = "analyze_distribution"
    /\ \E n \in 0..MaxScores : scores \in [1..n -> ScoreChoices]
    /\ post = NoPost
    /\ calibration = <<>>
    /\ heuristic_scores = <<>>
    /\ api_scores = <<>>
    /\ paired = <<>>
    /\ h_stats = Null
    /\ a_stats = Null
    /\ data = NoData
    /\ twitter_cal = <<>>
    /\ reddit_cal = <<>>
    /\ all_posts = <<>>
    /\ stdout = <<>>
    /\ ret = NotReturned

AnalyzeDistribution ==
    /\ pc = "analyze_distribution"
    /\ LET r == analyze_distribution(scores, "Scores")
       IN  /\ stdout' = stdout \o r.out
           /\ ret' = [exc |-> r.exc, val |-> r.val]
    /\ pc' = "returned"
    /\ UNCHANGED <<post, scores, sourceVars, mainVars>>

NextDist == AnalyzeDistribution

SpecDist == InitDist /\ [][NextDist]_vars

\* Every score of the list is a number.
Numeric(s) == \A i \in 1..Len(s) : s[i].t = "num"

\* The analyzer returned its summary for a non-empty list of numbers, and
\* printed one block.
Analyzed ==
    /\ pc = "returned"
    /\ scores # <<>>
    /\ Numeric(scores)
    /\ ret.exc = ""
    /\ Len(stdout) = 1
    /\ stdout[1].kind = "distribution"

\* The value at index i (from 0) of the ascending arrangement of the scores:
\* the score v with fewer than i + 1 scores below it and at least i + 1 scores
\* not above it.
OrderStatistic(s, i) ==
    CHOOSE v \in {s[j].n : j \in 1..Len(s)} :
        /\ Cardinality({j \in 1..Len(s) : s[j].n < v}) <= i
        /\ Cardinality({j \in 1..Len(s) : s[j].n <= v}) > i

\* C7: for a non-empty list of numbers, low, medium and high count the
\* scores below 40, from 40 to below 70, and from 70 on; every score is in
\* exactly one of them, so they sum to n; 40 counts as medium and 70 as high.
C7_BucketTotals ==
    (pc = "returned" /\ scores # <<>> /\ Numeric(scores)) =>
        /\ Analyzed
        /\ LET o == stdout[1]
               I == 1..Len(scores)
           IN  /\ o.n = Len(scores)
               /\ o.low + o.medium + o.high = o.n
               /\ o.low = Cardinality({i \in I : scores[i].n < 40})
               /\ o.medium = Cardinality({i \in I : scores[i].n >= 40 /\ scores[i].n < 70})
               /\ o.high = Cardinality({i \in I : scores[i].n >= 70})
               /\ o.medium >= Cardinality({i \in I : scores[i].n = 40})
               /\ o.high >= Cardinality({i \in I : scores[i].n = 70})
               /\ o.low <= Cardinality({i \in I : scores[i].n \notin {40, 70}})

\* A list holding 39, 40 and 70 was analyzed: one low, one medium, one high.
C7_Witness ==
    /\ Analyzed
    /\ {39, 40, 70} = {scores[i].n : i \in 1..Len(scores)}
    /\ Len(scores) = 3
    /\ stdout[1].low = 1 /\ stdout[1].medium = 1 /\ stdout[1].high = 1

\* C8: for a non-empty list of n numbers, each percentile p of 10, 25, 50,
\* 75, 90, 95 is the value at index min(floor(n * p / 100), n - 1) of the
\* ascending arrangement, that index lies in 0..n-1, and
\* p10 <= p25 <= p50 <= p75 <= p90 <= p95.
C8_Percentiles ==
    (pc = "returned" /\ scores # <<>> /\ Numeric(scores)) =>
        /\ Analyzed
        /\ LET o == stdout[1]
               n == Len(scores)
               idx(p) == Min((n * p) \div 100, n - 1)
           IN  /\ \A p \in {10, 25, 50, 75, 90, 95} : idx(p) \in 0..(n - 1)
               /\ o.p10 = OrderStatistic(scores, idx(10))
               /\ o.p25 = OrderStatistic(scores, idx(25))
               /\ o.p50 = OrderStatistic(scores, idx(50))
               /\ o.p75 = OrderStatistic(scores, idx(75))
               /\ o.p90 = OrderStatistic(scores, idx(90))
               /\ o.p95 = OrderStatistic(scores, idx(95))
               /\ ret.val.p75 = o.p75 /\ ret.val.p90 = o.p90 /\ ret.val.p95 = o.p95
               /\ o.p10 <= o.p25 /\ o.p25 <= o.p50 /\ o.p50 <= o.p75
               /\ o.p75 <= o.p90 /\ o.p90 <= o.p95

\* An unsorted list of five different scores was analyzed: its percentiles
\* up to the 90th are five different values.
C8_Witness ==
    /\ Analyzed
    /\ Len(scores) = 5
    /\ scores[1].n > scores[2].n
    /\ stdout[1].p10 < stdout[1].p25
    /\ stdout[1].p25 < stdout[1].p50
    /\ stdout[1].p50 < stdout[1].p75
    /\ stdout[1].p75 < stdout[1].p90

\* C9: for a non-empty list of n numbers, the median printed and returned is
\* the value at index n // 2 of the ascending arrangement: the upper-middle
\* element for an even n; for [10, 20, 30, 40] it is 30.
C9_Median ==
    (pc = "returned" /\ scores # <<>> /\ Numeric(scores)) =>
        /\ Analyzed
        /\ stdout[1].median = OrderStatistic(scores, Len(scores) \div 2)
        /\ ret.val.median = stdout[1].median
        /\ scores = <<Num(10), Num(20), Num(30), Num(40)>> => ret.val.median = 30

\* [10, 20, 30, 40] was analyzed and its median is 30.
C9_Witness ==
    /\ Analyzed
    /\ scores = <<Num(10), Num(20), Num(30), Num(40)>>
    /\ stdout[1].median = 30

(***************************************************************************)
(* analyze_by_source                                                       *)
(***************************************************************************)
\* Differences beyond this, either way, are counted as over or under.
CloseBand == 10

\* [p['heuristicScore'] for p in calibration if 'heuristicScore' in p]
heuristic_scores_of(cal) ==
    LET has == SelectSeq(cal, LAMBDA p : "heuristicScore" \in DOMAIN p)
    IN  [i \in 1..Len(has) |-> has[i]["heuristicScore"]]

\* The "is not None" test left out.
api_scores_with_none(cal) ==
    LET has == SelectSeq(cal, LAMBDA p : "apiScore" \in DOMAIN p)
    IN  [i \in 1..Len(has) |-> has[i]["apiScore"]]

\* [p['apiScore'] for p in calibration
\*  if 'apiScore' in p and p['apiScore'] is not None]
api_scores_of(cal) ==
    LET has == SelectSeq(cal, LAMBDA p : "apiScore" \in DOMAIN p /\ p["apiScore"] # Null)
    IN  [i \in 1..Len(has) |-> has[i]["apiScore"]]

\* The (heuristicScore, apiScore) pairs of the records that have both keys and
\* an apiScore that is not None.
paired_of(cal) ==
    LET has == SelectSeq(cal, LAMBDA p : /\ "heuristicScore" \in DOMAIN p
                                         /\ "apiScore" \in DOMAIN p
                                         /\ p["apiScore"] # Null)
    IN  [i \in 1..Len(has) |-> <<has[i]["heuristicScore"], has[i]["apiScore"]>>]

\* A difference of exactly 10 either way is counted as over or under.
diff_counts_closed(diffs) ==
    LET over  == Cardinality({i \in 1..Len(diffs) : diffs[i] >= CloseBand})
        under == Cardinality({i \in 1..Len(diffs) : diffs[i] <= -CloseBand})
    IN  [over |-> over, under |-> under, close |-> Len(diffs) - over - under]

\* over, under, close
diff_counts(diffs) ==
    LET over  == Cardinality({i \in 1..Len(diffs) : diffs[i] > CloseBand})
        under == Cardinality({i \in 1..Len(diffs) : diffs[i] < -CloseBand})
    IN  [over |-> over, under |-> under, close |-> Len(diffs) - over - under]

\* The comparison block of analyze_by_source: nothing for no pair; a None
\* heuristicScore makes the subtraction raise TypeError after the header of
\* the block is printed.
comparison(pairs, label_prefix) ==
    IF pairs = <<>> THEN ReturnOut(Null, <<>>)
    ELSE IF \E i \in 1..Len(pairs) : pairs[i][1].t # "num" \/ pairs[i][2].t # "num"
    THEN RaiseOut("TypeError",
                  <<[kind |-> "comparison_header", label |-> label_prefix,
                     pairs |-> Len(pairs)]>>)
    ELSE
        LET diffs == [i \in 1..Len(pairs) |-> pairs[i][2].n - pairs[i][1].n]
            c     == diff_counts(diffs)
        IN  ReturnOut(Null,
                <<[kind |-> "comparison", label |-> label_prefix, pairs |-> Len(pairs),
                   mean_diff |-> [num |-> sum(diffs), den |-> Len(diffs)],
                   over |-> c.over, under |-> c.under, close |-> c.close]>>)

HeuristicLabel(label_prefix) == label_prefix \o " - Heuristic Scores"

ApiLabel(label_prefix) == label_prefix \o " - API Scores"

\* analyze_by_source(calibration, label_prefix)
analyze_by_source(cal, label_prefix) ==
    LET h == analyze_distribution(heuristic_scores_of(cal), HeuristicLabel(label_prefix))
        a == analyze_distribution(api_scores_of(cal), ApiLabel(label_prefix))
        c == comparison(paired_of(cal), label_prefix)
    IN  IF h.exc # "" THEN RaiseOut(h.exc, h.out)
        ELSE IF a.exc # "" THEN RaiseOut(a.exc, h.out \o a.out)
        ELSE IF c.exc # "" THEN RaiseOut(c.exc, h.out \o a.out \o c.out)
        ELSE ReturnOut(<<h.val, a.val>>, h.out \o a.out \o c.out)

(***************************************************************************)
(* analyze_by_source applied to one drawn calibration list, statement by   *)
(* statement                                                               *)
(***************************************************************************)
\* The longest calibration list drawn.
MaxCalibration == 3

\* A field of a drawn record: the key absent, or present with this value.
ScoreField(values) ==
    {[kind |-> "absent", v |-> Null]} \cup {[kind |-> "present", v |-> v] : v \in values}

MkScored(h, a) ==
    LET keys == (IF h.kind = "absent" THEN {} ELSE {"heuristicScore"})
                \cup (IF a.kind = "absent" THEN {} ELSE {"apiScore"})
    IN  [k \in keys |-> IF k = "heuristicScore" THEN h.v ELSE a.v]

SourceRecords ==
    {MkScored(h, a) : h \in ScoreField({Null, Num(50)}),
                      a \in ScoreField({Null, Num(39), Num(40), Num(51), Num(60), Num(61)})}

InitSource ==
    /\ pc = "by_source"
    /\ \E n \in 0..MaxCalibration : calibration \in [1..n -> SourceRecords]
    /\ post = NoPost
    /\ scores = <<>>
    /\ heuristic_scores = <<>>
    /\ api_scores = <<>>
    /\ paired = <<>>
    /\ h_stats = Null
    /\ a_stats = Null
    /\ data = NoData
    /\ twitter_cal = <<>>
    /\ reddit_cal = <<>>
    /\ all_posts = <<>>
    /\ stdout = <<>>
    /\ ret = NotReturned

\* The two list comprehensions.
BuildScoreLists ==
    /\ pc = "by_source"
    /\ heuristic_scores' = heuristic_scores_of(calibration)
    /\ api_scores' = api_scores_of(calibration)
    /\ pc' = "analyze"
    /\ UNCHANGED <<post, scores, calibration, paired, h_stats, a_stats, mainVars, stdout, ret>>

\* The two calls of analyze_distribution; an exception of the first leaves
\* the function before the second.
AnalyzeScoreLists ==
    /\ pc = "analyze"
    /\ LET h == analyze_distribution(heuristic_scores, HeuristicLabel("REDDIT"))
           a == analyze_distribution(api_scores, ApiLabel("REDDIT"))
       IN  IF h.exc # ""
           THEN /\ stdout' = stdout \o h.out
                /\ ret' = Raise(h.exc)
                /\ pc' = "raised"
                /\ UNCHANGED <<h_stats, a_stats>>
           ELSE IF a.exc # ""
           THEN /\ stdout' = stdout \o h.out \o a.out
                /\ ret' = Raise(a.exc)
                /\ pc' = "raised"
                /\ h_stats' = h.val
                /\ UNCHANGED a_stats
           ELSE /\ stdout' = stdout \o h.out \o a.out
                /\ h_stats' = h.val
                /\ a_stats' = a.val
                /\ pc' = "compare"
                /\ UNCHANGED ret
    /\ UNCHANGED <<post, scores, calibration, heuristic_scores, api_scores, paired, mainVars>>

\* The comparison block and the return.
CompareAndReturn ==
    /\ pc = "compare"
    /\ paired' = paired_of(calibration)
    /\ LET c == comparison(paired', "REDDIT")
       IN  /\ stdout' = stdout \o c.out
           /\ IF c.exc # ""
              THEN ret' = Raise(c.exc) /\ pc' = "raised"
              ELSE ret' = Return(<<h_stats, a_stats>>) /\ pc' = "returned"
    /\ UNCHANGED <<post, scores, calibration, heuristic_scores, api_scores, h_stats, a_stats,
                   mainVars>>

NextSource == BuildScoreLists \/ AnalyzeScoreLists \/ CompareAndReturn

SpecSource == InitSource /\ [][NextSource]_vars

\* The values of key, in record order, of the records that have the key; a
\* null value is taken only with keepNull.
RECURSIVE ValuesOf(_, _, _)
ValuesOf(cal, key, keepNull) ==
    IF cal = <<>> THEN <<>>
    ELSE LET rest == ValuesOf(Tail(cal), key, keepNull)
             p    == Head(cal)
         IN  IF key \in DOMAIN p /\ (keepNull \/ p[key] # Null)
             THEN <<p[key]>> \o rest
             ELSE rest

\* Some record holds the key with the value null.
HasNull(cal, key) == \E i \in 1..Len(cal) : key \in DOMAIN cal[i] /\ cal[i][key] = Null

\* The block the analyzer prints for a score list: "No data" for an empty
\* one, a distribution over as many scores as the list holds otherwise.
BlockFor(block, list, label) ==
    /\ block.label = label
    /\ IF list = <<>> THEN block.kind = "nodata"
       ELSE block.kind = "distribution" /\ block.n = Len(list)

\* C5 as stated: the analyzer gets the heuristicScore values that are present
\* and not null and the apiScore values that are present and not null, and a
\* null or absent score does not make the run fail.
C5_AsClaimed ==
    pc \in {"returned", "raised"} =>
        /\ heuristic_scores = ValuesOf(calibration, "heuristicScore", FALSE)
        /\ api_scores = ValuesOf(calibration, "apiScore", FALSE)
        /\ pc = "returned"

\* C5, amended: the analyzer gets the heuristicScore value of every record
\* that has the key, a null value included, and the apiScore values that are
\* present and not null, both in record order with duplicates kept.  A record
\* without heuristicScore, or with an absent or null apiScore, is skipped for
\* that list and does not make the run fail; the run fails, with a
\* TypeError, exactly when some record holds a null heuristicScore.
C5_ScoreLists ==
    pc \in {"analyze", "compare", "returned", "raised"} =>
        /\ heuristic_scores = ValuesOf(calibration, "heuristicScore", TRUE)
        /\ api_scores = ValuesOf(calibration, "apiScore", FALSE)
        /\ pc = "raised" =>
                /\ HasNull(calibration, "heuristicScore")
                /\ ret = Raise("TypeError")
                /\ stdout = <<>>
        /\ pc \in {"compare", "returned"} =>
                /\ ~HasNull(calibration, "heuristicScore")
                /\ Len(stdout) >= 2
                /\ BlockFor(stdout[1], heuristic_scores, "REDDIT - Heuristic Scores")
                /\ BlockFor(stdout[2], api_scores, "REDDIT - API Scores")

\* A list with a record without heuristicScore, a record with a null apiScore
\* and a record with both scores was analyzed without failure: one heuristic
\* score and one API score reached the analyzer.
C5_Witness ==
    /\ pc = "returned"
    /\ \E i \in 1..Len(calibration) : "heuristicScore" \notin DOMAIN calibration[i]
    /\ HasNull(calibration, "apiScore")
    /\ Len(heuristic_scores) = 1
    /\ Len(api_scores) = 1
    /\ stdout[1].kind = "distribution"
    /\ stdout[2].kind = "distribution"

\* The pairs the comparator works on: the two scores of every record that
\* has both as numbers.
BothNumbers(p) ==
    /\ "heuristicScore" \in DOMAIN p /\ p["heuristicScore"].t = "num"
    /\ "apiScore" \in DOMAIN p /\ p["apiScore"].t = "num"

\* C6: over counts the pairs with apiScore - heuristicScore > 10, under those
\* with a difference < -10, close those with -10 <= difference <= 10, and the
\* three sum to the number of pairs; a difference of 10 or -10 is close, 11 is
\* over, -11 is under; [(50,60),(50,40),(50,51)] gives over 0, under 0,
\* close 3; with no pair, no comparison block is printed and nothing fails.
C6_Comparator ==
    pc = "returned" =>
        LET I    == 1..Len(paired)
            d(i) == paired[i][2].n - paired[i][1].n
        IN  /\ Len(paired) = Cardinality({i \in 1..Len(calibration) : BothNumbers(calibration[i])})
            /\ ret.exc = ""
            /\ paired = <<>> => Len(stdout) = 2
            /\ paired # <<>> =>
                /\ Len(stdout) = 3
                /\ stdout[3].kind = "comparison"
                /\ stdout[3].pairs = Len(paired)
                /\ stdout[3].over = Cardinality({i \in I : d(i) > 10})
                /\ stdout[3].under = Cardinality({i \in I : d(i) < -10})
                /\ stdout[3].close = Cardinality({i \in I : -10 <= d(i) /\ d(i) <= 10})
                /\ stdout[3].over + stdout[3].under + stdout[3].close = Len(paired)
                /\ stdout[3].over >= Cardinality({i \in I : d(i) = 11})
                /\ stdout[3].under >= Cardinality({i \in I : d(i) = -11})
                /\ stdout[3].close >= Cardinality({i \in I : d(i) \in {10, -10}})
            /\ paired = << <<Num(50), Num(60)>>, <<Num(50), Num(40)>>, <<Num(50), Num(51)>> >>
                => stdout[3].over = 0 /\ stdout[3].under = 0 /\ stdout[3].close = 3

\* The pairs (50,60), (50,40), (50,51) were compared: all three are close.
C6_Witness ==
    /\ pc = "returned"
    /\ paired = << <<Num(50), Num(60)>>, <<Num(50), Num(40)>>, <<Num(50), Num(51)>> >>
    /\ Len(stdout) = 3
    /\ stdout[3].close = 3

(***************************************************************************)
(* main                                                                    *)
(***************************************************************************)
\* How the process ends: a normal return of main is status 0, an uncaught
\* exception is a traceback and status 1.
Exit(code, exc) == [exc |-> exc, val |-> code]

\* Some element of a list comprehension over is_twitter_post raises.
classify_raises(posts) == \E i \in 1..Len(posts) : is_twitter_post(posts[i]).exc # ""

\* [p for p in posts if is_twitter_post(p)]
twitter_of(posts) == SelectSeq(posts, LAMBDA p : is_twitter_post(p).val)

\* [p for p in posts if not is_twitter_post(p)]
reddit_of(posts) == SelectSeq(posts, LAMBDA p : ~is_twitter_post(p).val)

\* The partition analyzed whether or not it holds an entry.
analyze_partition_unguarded(cal, label_prefix) == analyze_by_source(cal, label_prefix)

\* if cal: analyze_by_source(cal, label_prefix)
analyze_partition(cal, label_prefix) ==
    IF cal # <<>> THEN analyze_by_source(cal, label_prefix) ELSE ReturnOut(Null, <<>>)

\* for session in sessions: all_posts.extend(session.get('posts', []))
RECURSIVE flatten(_)
flatten(sessions) ==
    IF sessions = <<>> THEN <<>>
    ELSE Get(Head(sessions), "posts", <<>>) \o flatten(Tail(sessions))

\* The labels of the session tally, in the order they are printed.  Bucket
\* labels are only ever compared, so they are kept as whole strings.
PrintedBuckets == <<Str("low"), Str("medium"), Str("high"), Str("unknown")>>

\* The tally of one platform's impressions: nothing for none; otherwise the
\* number of impressions and, for each printed label that was counted, its
\* count.
bucket_tally(posts, label) ==
    IF posts = <<>> THEN <<>>
    ELSE
        LET key(q)   == Get(q, "bucket", Str("unknown"))
            buckets  == {key(posts[i]) : i \in 1..Len(posts)}
            count(b) == Cardinality({i \in 1..Len(posts) : key(posts[i]) = b})
            shown    == SelectSeq(PrintedBuckets, LAMBDA b : b \in buckets)
        IN  <<[kind |-> "session", label |-> label, total |-> Len(posts),
               lines |-> [j \in 1..Len(shown) |->
                            [bucket |-> shown[j], count |-> count(shown[j])]]]>>

\* The section printed although there is no impression.
session_report_unguarded(posts) ==
    IF classify_raises(posts) THEN RaiseOut("AttributeError", <<>>)
    ELSE ReturnOut(Null, <<[kind |-> "session_header"]>>
                         \o bucket_tally(reddit_of(posts), "Reddit")
                         \o bucket_tally(twitter_of(posts), "Twitter"))

\* The session section of main: skipped for no impression.
session_report(posts) ==
    IF posts = <<>> THEN ReturnOut(Null, <<>>)
    ELSE IF classify_raises(posts) THEN RaiseOut("AttributeError", <<>>)
    ELSE ReturnOut(Null, <<[kind |-> "session_header"]>>
                         \o bucket_tally(reddit_of(posts), "Reddit")
                         \o bucket_tally(twitter_of(posts), "Twitter"))

(***************************************************************************)
(* The documents main is run on                                            *)
(***************************************************************************)
\* The most records a document holds, calibration entries and impressions
\* together.
MaxEntries == 2

Merge(f, g) == [k \in DOMAIN f \cup DOMAIN g |-> IF k \in DOMAIN f THEN f[k] ELSE g[k]]

AtBob == [subreddit |-> Str(<<"@", "b", "o", "b">>), postId |-> Str(<<>>)]

Funny == [subreddit |-> Str(<<"f", "u", "n", "n", "y">>),
          postId |-> Str(<<"a", "b", "c", "1", "2", "3">>)]

LongId == [postId |-> Str(DigitString(TwitterIdLen + 1))]

CalibrationEntries ==
    {Merge(o, MkScored(h, a)) : o \in {AtBob, Funny},
                                h \in ScoreField({Null, Num(30)}),
                                a \in ScoreField({Null, Num(45)})}

Impressions ==
    {Merge(o, b) : o \in {LongId, Funny},
                   b \in {[k \in {} |-> Null]}
                          \cup {[bucket |-> Str(l)] : l \in {"low", "medium", "high", "extreme"}}}

\* The ways a list of impressions lies in the sessions of a document: in one
\* session, behind a session without posts, or split over two sessions; for
\* no impression also no session at all.
SessionsOf(posts) ==
    {<<[posts |-> posts]>>, <<[k \in {} |-> Null], [posts |-> posts]>>}
    \cup {<<[posts |-> SubSeq(posts, 1, k)], [posts |-> SubSeq(posts, k + 1, Len(posts))]>> :
             k \in 1..(Len(posts) - 1)}
    \cup (IF posts = <<>> THEN {<<>>} ELSE {})

\* The documents holding these calibration entries and these impressions; a
\* key whose list is empty may also be absent.
DocumentsOf(cal, posts) ==
    {[calibration |-> cal, sessions |-> ses] : ses \in SessionsOf(posts)}
    \cup (IF cal = <<>> THEN {[sessions |-> ses] : ses \in SessionsOf(posts)} ELSE {})
    \cup (IF posts = <<>> THEN {[calibration |-> cal]} ELSE {})
    \cup (IF posts = <<>> /\ cal = <<>> THEN {[k \in {} |-> Null]} ELSE {})

InitMain ==
    /\ pc = "header"
    /\ \E n \in 0..MaxEntries : \E m \in 0..(MaxEntries - n) :
          \E cal \in [1..n -> CalibrationEntries] : \E posts \in [1..m -> Impressions] :
             data \in DocumentsOf(cal, posts)
    /\ post = NoPost
    /\ scores = <<>>
    /\ calibration = <<>>
    /\ heuristic_scores = <<>>
    /\ api_scores = <<>>
    /\ paired = <<>>
    /\ h_stats = Null
    /\ a_stats = Null
    /\ twitter_cal = <<>>
    /\ reddit_cal = <<>>
    /\ all_posts = <<>>
    /\ stdout = <<>>
    /\ ret = NotReturned

unusedInMain == <<post, scores, heuristic_scores, api_scores, paired, h_stats, a_stats>>

\* The export date and the two totals.
PrintHeader ==
    /\ pc = "header"
    /\ stdout' = stdout \o
            <<[kind |-> "header",
               exportDate |-> Get(data, "exportDate", Str("unknown")),
               sessions |-> Len(Get(data, "sessions", <<>>)),
               calibration |-> Len(Get(data, "calibration", <<>>))]>>
    /\ pc' = "partition"
    /\ UNCHANGED <<unusedInMain, calibration, mainVars, ret>>

\* The calibration entries separated by platform, and the breakdown.
PartitionCalibration ==
    /\ pc = "partition"
    /\ calibration' = Get(data, "calibration", <<>>)
    /\ IF classify_raises(calibration')
       THEN /\ ret' = Exit(1, "AttributeError")
            /\ pc' = "exit"
            /\ UNCHANGED <<twitter_cal, reddit_cal, stdout>>
       ELSE /\ twitter_cal' = twitter_of(calibration')
            /\ reddit_cal' = reddit_of(calibration')
            /\ stdout' = stdout \o <<[kind |-> "breakdown",
                                       twitter |-> Len(twitter_cal'),
                                       reddit |-> Len(reddit_cal')]>>
            /\ pc' = "reddit"
            /\ UNCHANGED ret
    /\ UNCHANGED <<unusedInMain, data, all_posts>>

\* One platform's partition analyzed, if it holds an entry.
AnalyzePartition(at, cal, label_prefix, next) ==
    /\ pc = at
    /\ LET r == analyze_partition(cal, label_prefix)
       IN  /\ stdout' = stdout \o r.out
           /\ IF r.exc # ""
              THEN ret' = Exit(1, r.exc) /\ pc' = "exit"
              ELSE pc' = next /\ UNCHANGED ret
    /\ UNCHANGED <<unusedInMain, calibration, mainVars>>

AnalyzeReddit == AnalyzePartition("reddit", reddit_cal, "REDDIT", "twitter")

AnalyzeTwitter == AnalyzePartition("twitter", twitter_cal, "TWITTER", "sessions")

\* The impressions of all sessions in one list.
FlattenSessions ==
    /\ pc = "sessions"
    /\ all_posts' = flatten(Get(data, "sessions", <<>>))
    /\ pc' = "tally"
    /\ UNCHANGED <<unusedInMain, calibration, data, twitter_cal, reddit_cal, stdout, ret>>

\* The session section, and the end of main.
SessionReport ==
    /\ pc = "tally"
    /\ LET r == session_report(all_posts)
       IN  /\ stdout' = stdout \o r.out
           /\ ret' = IF r.exc # "" THEN Exit(1, r.exc) ELSE Exit(0, "")
    /\ pc' = "exit"
    /\ UNCHANGED <<unusedInMain, calibration, mainVars>>

NextMain ==
    \/ PrintHeader
    \/ PartitionCalibration
    \/ AnalyzeReddit
    \/ AnalyzeTwitter
    \/ FlattenSessions
    \/ SessionReport

SpecMain == InitMain /\ [][NextMain]_vars

\* The calibration entries and the sessions of the document.
DocCalibration == Get(data, "calibration", <<>>)

DocSessions == Get(data, "sessions", <<>>)

\* The document has calibration entries and all of them are Twitter posts.
AllTwitter ==
    /\ DocCalibration # <<>>
    /\ \A i \in 1..Len(DocCalibration) : is_twitter_post(DocCalibration[i]) = Return(TRUE)

\* The blocks of the analyzer and of the comparator.
AnalysisKinds == {"nodata", "distribution", "comparison", "comparison_header"}

\* A block of this kind and label has been printed.
Printed(kind, label) ==
    \E i \in 1..Len(stdout) :
        stdout[i].kind = kind /\ stdout[i].kind \in AnalysisKinds /\ stdout[i].label = label

RedditLabels == {"REDDIT", "REDDIT - Heuristic Scores", "REDDIT - API Scores"}

BreakdownPrinted(twitter, reddit) ==
    /\ Len(stdout) >= 2
    /\ stdout[2] = [kind |-> "breakdown", twitter |-> twitter, reddit |-> reddit]

\* C3 as stated: with only Twitter entries the driver prints the Twitter count
\* as the number of entries and the Reddit count as 0, and reports the two
\* Reddit analyzers as "No data" (looked at in the runs that end normally).
C3_AsClaimed ==
    (pc = "exit" /\ ret = Exit(0, "") /\ AllTwitter) =>
        /\ BreakdownPrinted(Len(DocCalibration), 0)
        /\ Printed("nodata", "REDDIT - Heuristic Scores")
        /\ Printed("nodata", "REDDIT - API Scores")

\* C3, amended: with only Twitter entries the driver prints the Twitter count
\* as the number of entries and the Reddit count as 0, and runs no analyzer
\* and no comparator on the Reddit partition: it prints no Reddit block at
\* all, "No data" included; the Twitter partition is analyzed.
C3_OnlyTwitter ==
    (pc \notin {"header", "partition"} /\ AllTwitter) =>
        /\ BreakdownPrinted(Len(DocCalibration), 0)
        /\ reddit_cal = <<>>
        /\ twitter_cal = DocCalibration
        /\ \A i \in 1..Len(stdout) :
              stdout[i].kind \in AnalysisKinds => stdout[i].label \notin RedditLabels
        /\ (pc \in {"sessions", "tally"} \/ (pc = "exit" /\ ret.exc = "")) =>
              /\ Len(stdout) >= 4
              /\ stdout[3].kind \in {"nodata", "distribution"}
              /\ stdout[3].label = "TWITTER - Heuristic Scores"
              /\ stdout[4].kind \in {"nodata", "distribution"}
              /\ stdout[4].label = "TWITTER - API Scores"

\* The run over calibration = [{heuristicScore: 30, apiScore: 45,
\* subreddit: "@bob", postId: ""}] has ended, with the distributions of the
\* two Twitter score lists printed.
C3_Witness ==
    /\ pc = "exit"
    /\ ret = Exit(0, "")
    /\ DocCalibration = <<Merge(AtBob, [heuristicScore |-> Num(30), apiScore |-> Num(45)])>>
    /\ Printed("distribution", "TWITTER - Heuristic Scores")
    /\ Printed("distribution", "TWITTER - API Scores")
    /\ Printed("comparison", "TWITTER")

RECURSIVE SumCounts(_)
SumCounts(lines) == IF lines = <<>> THEN 0 ELSE Head(lines).count + SumCounts(Tail(lines))

\* The impressions of a platform, as the tally labels them.
PlatformPosts(label) ==
    IF label = "Twitter" THEN twitter_of(all_posts) ELSE reddit_of(all_posts)

\* The impression has no bucket label, or one that is not low, medium or high.
NoKnownBucket(q) ==
    "bucket" \notin DOMAIN q \/ q["bucket"] \notin {Str("low"), Str("medium"), Str("high")}

\* The count printed for a label, 0 when the label has no line.
PrintedCount(lines, b) ==
    SumCounts(SelectSeq(lines, LAMBDA l : l.bucket = b))

\* C4: in the tally of each platform with impressions, every impression
\* whose bucket is absent or is not low, medium or high is counted under
\* unknown, and the printed counts of low, medium, high and unknown sum to
\* the number of impressions printed for the platform.
C4_AsClaimed ==
    pc = "exit" =>
        \A i \in 1..Len(stdout) :
            stdout[i].kind = "session" =>
                /\ stdout[i].total = Len(PlatformPosts(stdout[i].label))
                /\ PrintedCount(stdout[i].lines, Str("unknown"))
                      = Len(SelectSeq(PlatformPosts(stdout[i].label), NoKnownBucket))
                /\ SumCounts(stdout[i].lines) = stdout[i].total

\* The document has no calibration entry and no session.
EmptyDocument == DocCalibration = <<>> /\ DocSessions = <<>>

\* Every heuristicScore the document holds is a number.
NoNullHeuristic == ~HasNull(DocCalibration, "heuristicScore")

\* C10: for a document without calibration entries and without sessions
\* (empty or absent), the driver prints 0 sessions and 0 calibration entries,
\* then 0 Twitter and 0 Reddit entries, and nothing else: no analyzer, no
\* comparator, no session section; nothing is raised and the exit status is
\* 0.  Whatever else is missing (scores, pairs, impressions, bucket labels),
\* the exit status of a run over numeric scores is 0.
C10_EmptyDocument ==
    pc = "exit" =>
        /\ EmptyDocument =>
              /\ stdout = <<[kind |-> "header", exportDate |-> Str("unknown"),
                             sessions |-> 0, calibration |-> 0],
                            [kind |-> "breakdown", twitter |-> 0, reddit |-> 0]>>
              /\ ret = Exit(0, "")
        /\ NoNullHeuristic => ret = Exit(0, "")

\* The run over the document {} has ended with status 0.
C10_Witness ==
    /\ pc = "exit"
    /\ DOMAIN data = {}
    /\ Len(stdout) = 2
    /\ ret = Exit(0, "")

====
